---------------------------- MODULE Spec2Model ----------------------------
(***************************************************************************)
(* A state-machine model of the eigenvalue driver of simple-transport:     *)
(* run_eigenvalue, merge_fission_banks and synchronize_bank of             *)
(* src/src/eigenvalue.c, and the parameter readers parse_params, read_CLI  *)
(* and print_error of src/src/io.c.                                        *)
(*                                                                         *)
(* Arrays are 0-based in the source and 1-based sequences here: slot k of  *)
(* the source is element k+1 of the sequence.  A double is modelled as an  *)
(* exact fraction [num, den] in lowest terms.                              *)
(***************************************************************************)
EXTENDS Integers, Sequences, FiniteSets, TLC

(***************************************************************************)
(* Bounds of the model.                                                    *)
(***************************************************************************)
MaxParticles == 2

MaxBatches == 2

MaxGenerations == 2

MaxThreads == 2

MaxKids == 2

\* The generations of each of the two runs that are compared.
MaxCompared == 1

\* The largest source and fission banks synchronize_bank is studied on by
\* itself.
MaxSyncSource == 4

MaxSyncFission == 4

\* The widths of the integer types, scaled down so that the runs of the model
\* reach their limits: an int has IntBits bits (32 in the build) and an
\* unsigned long ULongBits (64).
IntBits == 5

ULongBits == 10

\* The long runs: one particle on one thread, up to MaxLongBatches batches of
\* up to MaxLongGenerations generations.
MaxLongBatches == 9

MaxLongGenerations == 4

\* merge_fission_banks by itself: the banks are created with at most
\* MaxCapacity slots and each thread has banked at most MaxMergeBank particles.
MaxCapacity == 3

MaxMergeBank == 2

\* shannon_entropy by itself: banks of at most MaxEntropyBank particles, whose
\* coordinates are multiples of 1/Grain of the side of the geometry.
MaxEntropyBank == 45

Grain == 4

\* The values a Particle record can take (its position, abstracted).
Sites == {"A", "B"}

\* The values of the particles of a fission bank handed to synchronize_bank
\* alone: enough of them to tell four particles apart.
SyncSites == {"A", "B", "C", "D"}

\* The RNG streams of the source (STREAM_TRACK, STREAM_OTHER).
Streams == {"TRACK", "OTHER"}

(***************************************************************************)
(* Helpers.                                                                *)
(***************************************************************************)
\* The greatest common divisor, by Euclid's algorithm.
GCD[a \in Int, b \in Int] == IF b = 0 THEN a ELSE GCD[b, a % b]

\* A double holding the exact quotient a / b (b > 0), in lowest terms.
Rat(a, b) == LET g == GCD[a, b] IN
             IF g = 0 THEN [num |-> 0, den |-> 1]
             ELSE [num |-> a \div g, den |-> b \div g]

RatAdd(x, y) == Rat(x.num * y.den + y.num * x.den, x.den * y.den)

RatDivInt(x, k) == Rat(x.num, x.den * k)

Range(s) == {s[k] : k \in 1..Len(s)}

RECURSIVE SeqsUpTo(_, _)
\* All sequences over S of length at most n.
SeqsUpTo(S, n) == IF n = 0 THEN {<<>>}
                  ELSE LET shorter == SeqsUpTo(S, n - 1) IN
                       shorter \cup {Append(s, x) : s \in {t \in shorter : Len(t) = n - 1}, x \in S}

\* All sequences over S of length exactly n.
SeqsOfLen(S, n) == {s \in SeqsUpTo(S, n) : Len(s) = n}

RECURSIVE SumOver(_, _)
\* Sum of f[x] over the finite set D.
SumOver(f, D) == IF D = {} THEN 0
                 ELSE LET x == CHOOSE y \in D : TRUE IN f[x] + SumOver(f, D \ {x})

RECURSIVE Concat(_, _, _)
\* f[lo] \o f[lo+1] \o ... \o f[hi]
Concat(f, lo, hi) == IF lo > hi THEN <<>> ELSE f[lo] \o Concat(f, lo + 1, hi)

(***************************************************************************)
(* State.                                                                  *)
(***************************************************************************)
VARIABLES
  parameters,          \* Parameters: n_particles, n_batches, n_generations, n_active,
                       \* tally, write_tally
  n_threads,           \* size of the OpenMP team
  source_bank,         \* Bank: [p, n]
  fission_bank,        \* threadprivate Bank of each thread: thread -> [p, n]
  master_fission_bank, \* the master bank's first n_sites particles
  sz,                  \* capacity of each thread's fission bank: thread -> sz
  master_sz,           \* capacity of the master fission bank
  pc,                  \* position of the master thread in run_eigenvalue
  i_b, i_a, i_g,       \* loop indices of run_eigenvalue
  i_p,                 \* private i_p of each thread: last iteration it ran, or -1
  sched,               \* the schedule of the particle loop: iteration -> thread
  taken,               \* iterations of the particle loop executed so far
  stream,              \* RNG stream selected by set_stream
  keff_gen, keff_batch,
  keff,                \* the caller's keff array: index -> value, Unset before a store
  mpc,                 \* position of each thread in merge_fission_banks
  merge_n, n_sites,    \* the shared locals n and n_sites of merge_fission_banks
  exit_code,           \* -1 while the process runs, else the status passed to exit
  \* the external collaborators as deterministic functions, tabulated as they
  \* are first used (only when two runs are compared: det_run > 0)
  det_run,             \* 0: a single run; 1, 2: first and second run of a comparison
  kern,                \* transport kernel: <<skip offset, particle>> -> offspring
  rnd,                 \* OTHER stream: <<position in the stream, hi>> -> rni(0, hi)
  n_draws,             \* position in the OTHER stream
  first_run,           \* what the first run started from and returned
  \* history variables (observations of the run, never read by the program)
  last_call,           \* the latest rn_skip / copy_particle / transport call
  produced,            \* particles appended to fission banks in this generation
  batch_total,         \* particles appended to fission banks in this batch
  gen_source,          \* the source bank as it was when the generation began
  pre_merge,           \* the per-thread fission banks as they were when the merge began
  sync_fb,             \* the fission bank as synchronize_bank found it
  sync_draws,          \* the rni draws synchronize_bank made, in order: [hi, j]
  sync_stream,         \* the stream selected when synchronize_bank made them
  extinct,             \* synchronize_bank has been entered with an empty fission bank
  keff_log,            \* the stores into keff, in order: [k, batch, value]
  generations_run,     \* generations completed since run_eigenvalue was entered
  calls,               \* transport calls of this generation: i_p -> how many
  started,             \* the rn_skip calls made so far: [i_b, i_g, i_p, skip]
  keff_call,           \* the latest call of calculate_keff: [n, read, mean]
  merged,              \* each generation's source bank, merged bank and keff_gen (in a comparison)
  entropy,             \* the call of shannon_entropy: [pc, b_n, n, count, i, outside]
  tally,               \* the Tally: [tallies_on, flux], flux as the set of scores [i_b, i_g, i_p] it holds
  tally_written,       \* the calls of write_tally, in order: [batch, flux]
  \* the parameter readers of io.c
  params,              \* the Parameters record parse_params and read_CLI fill
  cli_pc,              \* position of the process in parse_params / read_CLI
  n_read,              \* lines of the file, or options of the command line, read so far
  stdout,              \* what has been printed: <<prefix, message, newline>> per printf
  rejected             \* history: a configuration error has been met

vars == <<parameters, n_threads, source_bank, fission_bank, master_fission_bank,
          pc, i_b, i_a, i_g, i_p, sched, taken, stream, keff_gen, keff_batch, keff,
          mpc, merge_n, n_sites, exit_code, det_run, kern, rnd, n_draws,
          first_run, last_call, produced, batch_total, gen_source, pre_merge,
          sync_fb, sync_draws, extinct, keff_log, generations_run, calls,
          keff_call, sz, master_sz, sync_stream, started, tally_written, tally, entropy, merged,
          params, cli_pc, n_read, stdout, rejected>>

Threads == 0..(n_threads - 1)

N == parameters.n_particles

EmptyBank == [p |-> <<>>, n |-> 0]

\* A double that has not been assigned.
Unset == [num |-> 0, den |-> 0]

NoKeffCall == [n |-> -1, read |-> <<>>, mean |-> Unset]

\* The Tally before the run: tallies are off and the flux is zero.
NoTally == [tallies_on |-> FALSE, flux |-> {}]

\* No call of shannon_entropy is under way.
NoEntropy == [pc |-> "idle", b_n |-> 0, n |-> 0, count |-> <<>>, i |-> 0,
              outside |-> FALSE]

NoCall == [i_b |-> -1, i_g |-> -1, i_p |-> -1, thread |-> -1, skip |-> -1,
           p |-> "none", stream |-> "none"]


(***************************************************************************)
(* Particle banks.                                                         *)
(***************************************************************************)
\* The transport kernel's append of its fission offspring to the calling
\* thread's bank: the particles land at p[n], p[n+1], ... and n grows.
BankAppend(b, kids) == [p |-> SubSeq(b.p, 1, b.n) \o kids, n |-> b.n + Len(kids)]

\* The capacities a bank of capacity cap may have after an append that brings
\* its live count to need: the same, or grown to hold them.
Grown(cap, need) == IF need <= cap THEN {cap} ELSE need..(need + 1)

\* The capacities a bank may have after a resize for need particles: at least
\* need, and no less than before.
Resized(cap, need) == LET least == IF need > cap THEN need ELSE cap
                      IN least..(least + 1)

\* The capacity the banks of a run with parameters q are created with in the
\* specifications of the whole driver: room for all a generation can bank.
RoomFor(q) == q.n_particles * MaxKids

\* memcpy(&dst[at], src, cnt * sizeof(Particle)): dst with slots at..at+cnt-1
\* (0-based) overwritten by the first cnt particles of src.
Memcpy(dst, at, src, cnt) ==
  [k \in 1..(IF at + cnt > Len(dst) THEN at + cnt ELSE Len(dst)) |->
     IF k > at /\ k <= at + cnt THEN src[k - at] ELSE dst[k]]

(***************************************************************************)
(* run_eigenvalue: the particle loop.                                      *)
(***************************************************************************)
RECURSIVE Pow2(_)
Pow2(k) == IF k = 0 THEN 1 ELSE 2 * Pow2(k - 1)

\* Whether the int arithmetic that yields x overflows (undefined behaviour).
IntOverflows(x) == x >= Pow2(IntBits - 1) \/ x < -Pow2(IntBits - 1)

\* The int an overflowing operation yields on a build that wraps around.
WrapInt(x) == ((x + Pow2(IntBits - 1)) % Pow2(IntBits)) - Pow2(IntBits - 1)

\* The conversion to unsigned long, and unsigned long arithmetic.
ToULong(x) == x % Pow2(ULongBits)

SkipOffsetNoStride(ib, ig, ip) == (ib + ig) * parameters.n_particles + ip

\* Line 49: the argument of rn_skip for particle ip of generation ig of batch
\* ib: i_b * n_generations + i_g in int, times n_particles plus i_p in
\* unsigned long.
SkipOffset(ib, ig, ip) ==
  ToULong(ToULong(WrapInt(ib * parameters.n_generations + ig))
            * parameters.n_particles + ip)

\* The iterations of the particle loop the schedule gave to thread w and w has
\* not run yet.
Pending(w) == {ip \in 0..(N - 1) : sched[ip] = w /\ ip \notin taken}

\* The fission offspring one transport call may bank: the kernel is external,
\* any sequence of at most MaxKids particles.
Offspring == SeqsUpTo(Sites, MaxKids)

\* What the kernel may bank for the call at RNG offset skip with particle p: its
\* tabulated answer when the same call was made before in a comparison.
KernelOut(skip, p) ==
  IF <<skip, p>> \in DOMAIN kern THEN {kern[<<skip, p>>]} ELSE Offspring

\* The stream the draws of thread w come from: the one the latest
\* set_stream selected.
StreamOf(w) == stream

SourceAfterCopyReversed(sp, ip) ==
  [sp EXCEPT ![ip + 1] = IF @ = "A" THEN "B" ELSE "A"]

\* Line 52: copy_particle(&p, &(source_bank->p[i_p])) copies slot i_p of the
\* source bank into the thread's private p; the source bank's array is as it
\* was, and transport works on p.
SourceAfterCopy(sp, ip) == sp

\* The Tally after a transport call that scores `score`: with tallies on the
\* kernel may add to the flux, with tallies off it leaves it alone.
Scored(t, score) ==
  IF t.tallies_on THEN {t, [t EXCEPT !.flux = @ \cup {score}]} ELSE {t}

\* One iteration of the particle loop on thread w: rn_skip, copy_particle and
\* transport, which banks its offspring in w's own fission bank.  When the
\* int arithmetic of the offset overflows the build may wrap around or trap.
TransportStep(w) ==
  /\ pc = "particle_loop"
  /\ Pending(w) # {}
  /\ LET ip == CHOOSE x \in Pending(w) : \A y \in Pending(w) : x <= y
         skip == SkipOffset(i_b, i_g, ip)
         p == source_bank.p[ip + 1]
     IN \E kids \in KernelOut(skip, p) :
          /\ source_bank' = [source_bank EXCEPT !.p = SourceAfterCopy(@, ip)]
          /\ fission_bank' = [fission_bank EXCEPT ![w] = BankAppend(@, kids)]
          /\ \E cap \in Grown(sz[w], fission_bank[w].n + Len(kids)) :
               sz' = [sz EXCEPT ![w] = cap]
          /\ i_p' = [i_p EXCEPT ![w] = ip]
          /\ taken' = taken \cup {ip}
          /\ kern' = IF det_run = 0 THEN kern ELSE (<<skip, p>> :> kids) @@ kern
          /\ last_call' = [i_b |-> i_b, i_g |-> i_g, i_p |-> ip, thread |-> w,
                           skip |-> skip, p |-> p, stream |-> StreamOf(w)]
          /\ produced' = produced + Len(kids)
          /\ calls' = [calls EXCEPT ![ip] = @ + 1]
          /\ tally' \in Scored(tally, [i_b |-> i_b, i_g |-> i_g, i_p |-> ip])
          /\ started' = started \cup {[i_b |-> i_b, i_g |-> i_g, i_p |-> ip,
                                        skip |-> skip]}
  /\ \/ pc' = pc
     \/ /\ IntOverflows(i_b * parameters.n_generations + i_g)
        /\ pc' = "killed"
  /\ UNCHANGED <<parameters, n_threads, master_fission_bank, master_sz, i_b,
                 i_a, i_g, sched, stream, keff_gen, keff_batch, keff, mpc,
                 merge_n, n_sites, exit_code, det_run, rnd, n_draws,
                 first_run, batch_total, gen_source, pre_merge, sync_fb,
                 sync_draws, sync_stream, extinct, keff_log, generations_run,
                 keff_call, merged, entropy, tally_written, params, cli_pc,
                 n_read, stdout, rejected>>

IsActiveOffByOne(ib) == ib > parameters.n_batches - parameters.n_active

\* Line 29: whether batch ib is an active batch.
IsActive(ib) == ib >= parameters.n_batches - parameters.n_active

\* The start of a batch: lines 19-34.
BatchBegin ==
  /\ pc = "batch_loop"
  /\ i_b < parameters.n_batches
  /\ keff_batch' = Rat(0, 1)
  /\ i_a' = IF IsActive(i_b) THEN i_a + 1 ELSE i_a
  /\ tally' = IF IsActive(i_b) /\ parameters.tally
              THEN [tally EXCEPT !.tallies_on = TRUE] ELSE tally
  /\ i_g' = 0
  /\ batch_total' = 0
  /\ pc' = "generation_loop"
  /\ UNCHANGED <<parameters, n_threads, source_bank, fission_bank,
                 master_fission_bank, sz, master_sz, i_b, i_p, sched, taken,
                 stream, keff_gen, keff, mpc, merge_n, n_sites, exit_code,
                 det_run, kern, rnd, n_draws, first_run, last_call, produced,
                 gen_source, pre_merge, sync_fb, sync_draws, sync_stream,
                 extinct, keff_log, generations_run, calls, started,
                 keff_call, merged, entropy, tally_written, params, cli_pc,
                 n_read, stdout, rejected>>

MoreGenerationsInclusive(ig) == ig <= parameters.n_generations

\* Line 37: the test of the generation loop.
MoreGenerations(ig) == ig < parameters.n_generations

\* The start of a generation: set_stream(STREAM_TRACK) and the fork of the
\* parallel particle loop, whose schedule (no schedule clause) is the runtime's.
GenerationBegin ==
  /\ pc = "generation_loop"
  /\ MoreGenerations(i_g)
  /\ stream' = "TRACK"
  /\ sched' \in [0..(N - 1) -> Threads]
  /\ taken' = {}
  /\ i_p' = [t \in Threads |-> -1]
  /\ produced' = 0
  /\ gen_source' = source_bank
  /\ calls' = [ip \in 0..(N - 1) |-> 0]
  /\ pc' = "particle_loop"
  /\ UNCHANGED <<parameters, n_threads, source_bank, fission_bank,
                 master_fission_bank, sz, master_sz, i_b, i_a, i_g, keff_gen,
                 keff_batch, keff, mpc, merge_n, n_sites, exit_code, det_run,
                 kern, rnd, n_draws, first_run, last_call, batch_total,
                 pre_merge, sync_fb, sync_draws, sync_stream, extinct,
                 keff_log, generations_run, started, keff_call, merged,
                 entropy, tally, tally_written, params, cli_pc, n_read,
                 stdout, rejected>>

StreamAfterLoopKept == stream

\* Line 59: set_stream(STREAM_OTHER).
StreamAfterLoop == "OTHER"

LoopBarrierMasterOnly == \A ip \in 0..(N - 1) : sched[ip] = 0 => ip \in taken

\* Line 56: the barrier at the end of the parallel loop is passed when every
\* thread has run its iterations.
LoopBarrier == taken = 0..(N - 1)

\* The end of the particle loop (its implicit barrier), set_stream(STREAM_OTHER)
\* and the entry of merge_fission_banks: n = 0, n_sites = 0, the team forks.
ParticleLoopEnd ==
  /\ pc = "particle_loop"
  /\ LoopBarrier
  /\ stream' = StreamAfterLoop
  /\ merge_n' = 0
  /\ n_sites' = 0
  /\ mpc' = [t \in Threads |-> "count"]
  /\ pre_merge' = fission_bank
  /\ last_call' = NoCall
  /\ i_p' = [t \in Threads |-> -1]  \* the loop's private variables are gone
  /\ sched' = [ip \in 0..(N - 1) |-> 0]
  /\ taken' = {}
  /\ pc' = "merge"
  /\ UNCHANGED <<parameters, n_threads, source_bank, fission_bank,
                 master_fission_bank, sz, master_sz, i_b, i_a, i_g, keff_gen,
                 keff_batch, keff, exit_code, det_run, kern, rnd, n_draws,
                 first_run, produced, batch_total, gen_source, sync_fb,
                 sync_draws, sync_stream, extinct, keff_log, generations_run,
                 calls, started, keff_call, merged, entropy, tally,
                 tally_written, params, cli_pc, n_read, stdout, rejected>>

(***************************************************************************)
(* merge_fission_banks.  The two "omp for ordered" loops run n_threads      *)
(* iterations on n_threads threads; iteration i_t is executed by thread     *)
(* i_t (the static schedule), and uses that thread's threadprivate          *)
(* fission_bank.  An ordered region runs after those of the lower           *)
(* iterations.                                                              *)
(***************************************************************************)
\* Lines 141-147: thread t's iteration of the counting loop.
MergeCount(t) ==
  /\ pc = "merge"
  /\ mpc[t] = "count"
  /\ \A u \in Threads : u < t => mpc[u] # "count"
  /\ merge_n' = merge_n + fission_bank[t].n
  /\ mpc' = [mpc EXCEPT ![t] = "barrier1"]
  /\ UNCHANGED <<parameters, n_threads, source_bank, fission_bank,
                 master_fission_bank, sz, master_sz, pc, i_b, i_a, i_g, i_p,
                 sched, taken, stream, keff_gen, keff_batch, keff, n_sites,
                 exit_code, det_run, kern, rnd, n_draws, first_run, last_call,
                 produced, batch_total, gen_source, pre_merge, sync_fb,
                 sync_draws, sync_stream, extinct, keff_log, generations_run,
                 calls, started, keff_call, merged, entropy, tally,
                 tally_written, params, cli_pc, n_read, stdout, rejected>>

\* Line 149: the test that guards the two resizes.
ResizeNeeded(t) == t = 0 /\ merge_n > sz[0]

\* Lines 148-152: past the barrier, thread 0 resizes its bank and the master
\* bank when n exceeds its own bank's capacity.
MergeResize(t) ==
  /\ pc = "merge"
  /\ mpc[t] = "barrier1"
  /\ \A u \in Threads : mpc[u] # "count"
  /\ IF ResizeNeeded(t)
     THEN /\ \E cap \in Resized(sz[0], merge_n) : sz' = [sz EXCEPT ![0] = cap]
          /\ \E cap \in Resized(master_sz, merge_n) : master_sz' = cap
     ELSE UNCHANGED <<sz, master_sz>>
  /\ mpc' = [mpc EXCEPT ![t] = "copy"]
  /\ UNCHANGED <<parameters, n_threads, source_bank, fission_bank,
                 master_fission_bank, pc, i_b, i_a, i_g, i_p, sched, taken,
                 stream, keff_gen, keff_batch, keff, merge_n, n_sites,
                 exit_code, det_run, kern, rnd, n_draws, first_run, last_call,
                 produced, batch_total, gen_source, pre_merge, sync_fb,
                 sync_draws, sync_stream, extinct, keff_log, generations_run,
                 calls, started, keff_call, merged, entropy, tally,
                 tally_written, params, cli_pc, n_read, stdout, rejected>>

\* A memcpy of cnt particles to offset at of an array of cap particles that
\* writes past the array: the write may land, or the process may be killed.
Overrun(cap, at, cnt) == at + cnt > cap

CopyTurnUnordered(t) == TRUE

\* Lines 155-158: the ordered region of iteration t of the copying loop may
\* start once those of the iterations below t are over.
CopyTurn(t) == \A u \in Threads : u < t => mpc[u] \notin {"count", "barrier1", "copy"}

\* Lines 155-162: thread t's iteration of the copying loop.
MergeCopy(t) ==
  /\ pc = "merge"
  /\ mpc[t] = "copy"
  /\ CopyTurn(t)
  /\ master_fission_bank' =
       Memcpy(SubSeq(master_fission_bank, 1, n_sites), n_sites,
              fission_bank[t].p, fission_bank[t].n)
  /\ n_sites' = n_sites + fission_bank[t].n
  /\ mpc' = [mpc EXCEPT ![t] = "barrier2"]
  /\ \/ pc' = pc
     \/ /\ Overrun(master_sz, n_sites, fission_bank[t].n)
        /\ pc' = "killed"
  /\ UNCHANGED <<parameters, n_threads, source_bank, fission_bank, sz,
                 master_sz, i_b, i_a, i_g, i_p, sched, taken, stream,
                 keff_gen, keff_batch, keff, merge_n, exit_code, det_run,
                 kern, rnd, n_draws, first_run, last_call, produced,
                 batch_total, gen_source, pre_merge, sync_fb, sync_draws,
                 sync_stream, extinct, keff_log, generations_run, calls,
                 started, keff_call, merged, entropy, tally, tally_written,
                 params, cli_pc, n_read, stdout, rejected>>

\* Lines 163-171: past the barrier, thread 0 takes the master bank and the
\* other threads empty theirs.
MergeAssign(t) ==
  /\ pc = "merge"
  /\ mpc[t] = "barrier2"
  /\ \A u \in Threads : mpc[u] \in {"barrier2", "end"}
  /\ fission_bank' =
       [fission_bank EXCEPT ![t] =
          IF t = 0
          THEN [p |-> SubSeq(Memcpy(@.p, 0, master_fission_bank, n_sites), 1, n_sites),
                n |-> n_sites]
          ELSE EmptyBank]
  /\ mpc' = [mpc EXCEPT ![t] = "end"]
  /\ \/ pc' = pc
     \/ /\ t = 0
        /\ Overrun(sz[0], 0, n_sites)
        /\ pc' = "killed"
  /\ UNCHANGED <<parameters, n_threads, source_bank, master_fission_bank, sz,
                 master_sz, i_b, i_a, i_g, i_p, sched, taken, stream,
                 keff_gen, keff_batch, keff, merge_n, n_sites, exit_code,
                 det_run, kern, rnd, n_draws, first_run, last_call, produced,
                 batch_total, gen_source, pre_merge, sync_fb, sync_draws,
                 sync_stream, extinct, keff_log, generations_run, calls,
                 started, keff_call, merged, entropy, tally, tally_written,
                 params, cli_pc, n_read, stdout, rejected>>

\* Line 172: the join at the end of the parallel region; merge_fission_banks
\* returns to run_eigenvalue.
MergeEnd ==
  /\ pc = "merge"
  /\ \A u \in Threads : mpc[u] = "end"
  /\ mpc' = [t \in Threads |-> "idle"]
  /\ master_fission_bank' = <<>>  \* dead until the next merge overwrites it
  /\ merge_n' = 0                  \* the locals n and n_sites are gone
  /\ n_sites' = 0
  /\ pc' = "keff_gen"
  /\ UNCHANGED <<parameters, n_threads, source_bank, fission_bank, sz,
                 master_sz, i_b, i_a, i_g, i_p, sched, taken, stream,
                 keff_gen, keff_batch, keff, exit_code, det_run, kern, rnd,
                 n_draws, first_run, last_call, produced, batch_total,
                 gen_source, pre_merge, sync_fb, sync_draws, sync_stream,
                 extinct, keff_log, generations_run, calls, started,
                 keff_call, merged, entropy, tally, tally_written, params,
                 cli_pc, n_read, stdout, rejected>>

KeffIntegerDivision(n_f, n_s) == Rat(n_f \div n_s, 1)

\* Line 67: (double) fission_bank->n / source_bank->n.
KeffOfGeneration(n_f, n_s) == Rat(n_f, n_s)

\* Lines 66-68.
KeffGen ==
  /\ pc = "keff_gen"
  /\ keff_gen' = KeffOfGeneration(fission_bank[0].n, source_bank.n)
  /\ keff_batch' = RatAdd(keff_batch, keff_gen')
  /\ batch_total' = batch_total + produced
  /\ merged' = IF det_run = 0 THEN merged
               ELSE Append(merged, [source |-> source_bank.p, bank |-> fission_bank[0],
                                    keff_gen |-> keff_gen'])
  /\ pc' = "synchronize"
  /\ pre_merge' = [t \in Threads |-> EmptyBank]
  /\ UNCHANGED <<parameters, n_threads, source_bank, fission_bank,
                 master_fission_bank, sz, master_sz, i_b, i_a, i_g, i_p,
                 sched, taken, stream, keff, mpc, merge_n, n_sites, exit_code,
                 det_run, kern, rnd, n_draws, first_run, last_call, produced,
                 gen_source, sync_fb, sync_draws, sync_stream, extinct,
                 keff_log, generations_run, calls, started, keff_call,
                 entropy, tally, tally_written, params, cli_pc, n_read,
                 stdout, rejected>>

(***************************************************************************)
(* synchronize_bank.                                                       *)
(***************************************************************************)
\* The values rni(lo, hi) can return: an integer of [lo, hi).  The result for
\* an empty range is not specified: some integer.
RniValues(lo, hi) == IF lo < hi THEN lo..(hi - 1) ELSE lo..(lo + 1)

DrawLimitsOneMore(n_s, n_f) ==
  IF n_f >= n_s THEN [k \in 1..(n_f - n_s + 1) |-> n_s + k]
  ELSE [k \in 1..(n_s - n_f) |-> n_f]

DrawLimitsOffByOne(n_s, n_f) ==
  IF n_f >= n_s THEN [k \in 1..(n_f - n_s) |-> n_s + k - 1]
  ELSE [k \in 1..(n_s - n_f) |-> n_f]

\* The upper limits hi of the successive rni(0, hi) calls of synchronize_bank
\* for a source bank of n_s and a fission bank of n_f particles: i + 1 for
\* i = n_s .. n_f - 1 (lines 194-195), or n_f, n_s - n_f times (lines 208-209).
DrawLimits(n_s, n_f) ==
  IF n_f >= n_s THEN [k \in 1..(n_f - n_s) |-> n_s + k]
  ELSE [k \in 1..(n_s - n_f) |-> n_f]

RECURSIVE DrawsFor(_)
\* The sequences of results the calls rni(0, limits[1]), rni(0, limits[2]), ...
\* can return.
DrawsFor(limits) ==
  IF Len(limits) = 0 THEN {<<>>}
  ELSE {Append(d, j) : d \in DrawsFor(SubSeq(limits, 1, Len(limits) - 1)),
                       j \in RniValues(0, limits[Len(limits)])}

DrawSeqs(n_s, n_f) == DrawsFor(DrawLimits(n_s, n_f))

ReservoirStepOffByOne(sp, q, j, n_s) ==
  IF j < n_s - 1 THEN Memcpy(sp, j, <<q>>, 1) ELSE sp

\* Line 196-198: the replacement test of the reservoir loop for fission
\* particle q and draw j.
ReservoirStep(sp, q, j, n_s) == IF j < n_s THEN Memcpy(sp, j, <<q>>, 1) ELSE sp

RECURSIVE ReservoirPrevious(_, _, _, _, _, _)
ReservoirPrevious(sp, fp, n_s, i, n_f, draws) ==
  IF i >= n_f THEN sp
  ELSE ReservoirPrevious(ReservoirStep(sp, fp[i], draws[i - n_s + 1], n_s),
                         fp, n_s, i + 1, n_f, draws)

RECURSIVE Reservoir(_, _, _, _, _, _)
\* Lines 194-199: the iterations i, i+1, ..., n_f - 1 of the reservoir loop on
\* the source array sp; draws[k] is the k-th draw of the whole loop.
Reservoir(sp, fp, n_s, i, n_f, draws) ==
  IF i >= n_f THEN sp
  ELSE Reservoir(ReservoirStep(sp, fp[i + 1], draws[i - n_s + 1], n_s),
                 fp, n_s, i + 1, n_f, draws)

\* fission_bank->p[j] as line 210 reads it: a live particle, or, past the live
\* count, whatever the array holds there.
FissionRead(fp, n_f, j, stale) == IF j < n_f THEN fp[j + 1] ELSE stale

RECURSIVE Oversample(_, _, _, _, _, _, _)
\* Lines 208-211: the iterations i, i+1, ..., cnt - 1 of the sampling loop.
Oversample(sp, fp, n_f, i, cnt, draws, stale) ==
  IF i >= cnt THEN sp
  ELSE Oversample(Memcpy(sp, i, <<FissionRead(fp, n_f, draws[i + 1], stale[i + 1])>>, 1),
                  fp, n_f, i + 1, cnt, draws, stale)

FillRemainingAtFront(sp, fp, n_s, n_f) == Memcpy(sp, 0, fp, n_f)

\* Line 214: the fission bank fills the source slots n_s - n_f .. n_s - 1.
FillRemaining(sp, fp, n_s, n_f) == Memcpy(sp, n_s - n_f, fp, n_f)

\* Lines 181-215: the source bank's array after synchronize_bank, for the draws
\* rni returned; stale[k] is what the k-th read found when it fell past the
\* fission bank's live count.
SyncResult(src, fb, draws, stale) ==
  LET n_s == src.n
      n_f == fb.n
  IN IF n_f >= n_s
     THEN Reservoir(Memcpy(src.p, 0, fb.p, n_s), fb.p, n_s, n_s, n_f, draws)
     ELSE FillRemaining(Oversample(src.p, fb.p, n_f, 0, n_s - n_f, draws, stale),
                        fb.p, n_s, n_f)

BankClearForgotten(b) == b

\* Line 217: fission_bank->n = 0.  The particles left in the array are dead.
BankClear(b) == [p |-> <<>>, n |-> 0]

\* The draws the OTHER stream can deliver from its present position: any, but
\* in a comparison of two runs the ones tabulated for that position.
StreamDelivers(draws, limits) ==
  \A k \in 1..Len(draws) :
    <<n_draws + k - 1, limits[k]>> \in DOMAIN rnd
      => draws[k] = rnd[<<n_draws + k - 1, limits[k]>>]

Tabulate(draws, limits) ==
  [key \in DOMAIN rnd \cup {<<n_draws + k - 1, limits[k]>> : k \in 1..Len(draws)} |->
     IF key \in DOMAIN rnd THEN rnd[key]
     ELSE draws[CHOOSE k \in 1..Len(draws) : key = <<n_draws + k - 1, limits[k]>>]]

\* Line 72: the call of synchronize_bank, as a whole.
Synchronize ==
  /\ pc = "synchronize"
  /\ LET fb == fission_bank[0]
         limits == DrawLimits(source_bank.n, fb.n)
     IN \E draws \in DrawSeqs(source_bank.n, fb.n) :
        \E stale \in (IF fb.n = 0 THEN SeqsOfLen(Sites, Len(limits))
                      ELSE {[k \in 1..Len(limits) |-> "A"]}) :
          /\ StreamDelivers(draws, limits)
          /\ source_bank' = [source_bank EXCEPT !.p = SyncResult(source_bank, fb, draws, stale)]
          /\ fission_bank' = [fission_bank EXCEPT ![0] = BankClear(@)]
          /\ sync_fb' = fb
          /\ sync_stream' = StreamOf(0)
          /\ sync_draws' = [k \in 1..Len(draws) |-> [hi |-> limits[k], j |-> draws[k]]]
          /\ extinct' = (extinct \/ fb.n = 0)
          /\ rnd' = IF det_run = 0 THEN rnd ELSE Tabulate(draws, limits)
          /\ n_draws' = IF det_run = 0 THEN n_draws ELSE n_draws + Len(draws)
  /\ gen_source' = EmptyBank
  /\ produced' = 0
  /\ pc' = "diagnostics"
  /\ UNCHANGED <<parameters, n_threads, master_fission_bank, sz, master_sz,
                 i_b, i_a, i_g, i_p, sched, taken, stream, keff_gen,
                 keff_batch, keff, mpc, merge_n, n_sites, exit_code, det_run,
                 kern, first_run, last_call, batch_total, pre_merge, keff_log,
                 generations_run, calls, started, keff_call, merged, entropy,
                 tally, tally_written, params, cli_pc, n_read, stdout,
                 rejected>>

\* Lines 74-90: the diagnostics of the new source bank and the step of the
\* generation loop.  The diagnostics write no variable of the driver but the
\* local H; shannon_entropy is modelled by itself (EntropyGrid, EntropyCount,
\* EntropyReturn).
Diagnostics ==
  /\ pc = "diagnostics"
  /\ i_g' = i_g + 1
  /\ generations_run' = generations_run + 1
  /\ sync_fb' = EmptyBank
  /\ sync_draws' = <<>>
  /\ sync_stream' = "none"
  /\ pc' = "generation_loop"
  /\ UNCHANGED <<parameters, n_threads, source_bank, fission_bank,
                 master_fission_bank, sz, master_sz, i_b, i_a, i_p, sched,
                 taken, stream, keff_gen, keff_batch, keff, mpc, merge_n,
                 n_sites, exit_code, det_run, kern, rnd, n_draws, first_run,
                 last_call, produced, batch_total, gen_source, pre_merge,
                 extinct, keff_log, calls, started, keff_call, merged,
                 entropy, tally, tally_written, params, cli_pc, n_read,
                 stdout, rejected>>

\* The value of a double after a division of zero by zero (a marker that is
\* no quotient).
NaN == [num |-> 0, den |-> -1]

RECURSIVE KeffSum(_, _)
\* Lines 302-304: keff[0] + ... + keff[n - 1].
KeffSum(kf, n) == IF n <= 0 THEN Rat(0, 1) ELSE RatAdd(KeffSum(kf, n - 1), kf[n - 1])

\* Lines 295-315: calculate_keff(keff, &mean, &std, n): the entries it reads
\* and the mean it stores (the standard deviation, a square root, is not
\* represented).
CalculateKeff(kf, n) ==
  [n |-> n,
   read |-> [i \in 0..(n - 1) |-> kf[i]],
   mean |-> IF n = 0 THEN NaN ELSE RatDivInt(KeffSum(kf, n), n)]

TallyKept(t) == t

\* Line 103: memset(tally->flux, 0, ...).
TallyCleared(t) == [t EXCEPT !.flux = {}]

\* Lines 92-116: the end of a batch.
BatchEnd ==
  /\ pc = "generation_loop"
  /\ ~MoreGenerations(i_g)
  /\ keff_batch' = RatDivInt(keff_batch, parameters.n_generations)
  /\ keff' = IF i_a >= 0 THEN [keff EXCEPT ![i_a] = keff_batch'] ELSE keff
  /\ keff_log' = IF i_a >= 0
                 THEN Append(keff_log, [k |-> i_a, batch |-> i_b, value |-> keff_batch'])
                 ELSE keff_log
  /\ tally_written' = IF tally.tallies_on /\ parameters.write_tally
                      THEN Append(tally_written, [batch |-> i_b, flux |-> tally.flux])
                      ELSE tally_written
  /\ tally' = IF tally.tallies_on THEN TallyCleared(tally) ELSE tally
  /\ keff_call' = CalculateKeff(keff', i_a + 1)
  /\ i_b' = i_b + 1
  /\ pc' = "batch_loop"
  /\ UNCHANGED <<parameters, n_threads, source_bank, fission_bank,
                 master_fission_bank, sz, master_sz, i_a, i_g, i_p, sched,
                 taken, stream, keff_gen, mpc, merge_n, n_sites, exit_code,
                 det_run, kern, rnd, n_draws, first_run, last_call, produced,
                 batch_total, gen_source, pre_merge, sync_fb, sync_draws,
                 sync_stream, extinct, generations_run, calls, started,
                 merged, entropy, params, cli_pc, n_read, stdout, rejected>>

\* Lines 118-127: the batch loop is over; run_eigenvalue returns.
Return ==
  /\ pc = "batch_loop"
  /\ i_b >= parameters.n_batches
  /\ pc' = "done"
  /\ UNCHANGED <<parameters, n_threads, source_bank, fission_bank,
                 master_fission_bank, sz, master_sz, i_b, i_a, i_g, i_p,
                 sched, taken, stream, keff_gen, keff_batch, keff, mpc,
                 merge_n, n_sites, exit_code, det_run, kern, rnd, n_draws,
                 first_run, last_call, produced, batch_total, gen_source,
                 pre_merge, sync_fb, sync_draws, sync_stream, extinct,
                 keff_log, generations_run, calls, started, keff_call, merged,
                 entropy, tally, tally_written, params, cli_pc, n_read,
                 stdout, rejected>>

(***************************************************************************)
(* The parameter readers of io.c.  parse_params reads a configuration file *)
(* of key=value lines, read_CLI the command line; both fill the record     *)
(* params and end the process through print_error.  The file parse_params  *)
(* is given can be opened.  The lines and arguments are chosen as they are *)
(* read, at most MaxSettings of them.                                      *)
(***************************************************************************)
\* The lines parse_params reads, and the options read_CLI reads, at most.
MaxSettings == 2

\* A char pointer that is NULL.  The strings of the model are not empty.
NULL == ""

\* The member of Parameters each key of the configuration file sets.
Field ==
  [particles |-> "n_particles", batches |-> "n_batches",
   generations |-> "n_generations", active |-> "n_active",
   nuclides |-> "n_nuclides", tally |-> "tally", bins |-> "n_bins",
   seed |-> "seed", nu |-> "nu", xs_f |-> "xs_f", xs_a |-> "xs_a",
   xs_s |-> "xs_s", x |-> "gx", y |-> "gy", bc |-> "bc",
   load_source |-> "load_source", save_source |-> "save_source",
   write_tally |-> "write_tally", write_entropy |-> "write_entropy",
   write_keff |-> "write_keff", write_bank |-> "write_bank",
   write_source |-> "write_source", tally_file |-> "tally_file",
   entropy_file |-> "entropy_file", keff_file |-> "keff_file",
   bank_file |-> "bank_file", source_file |-> "source_file"]

Keys == DOMAIN Field

\* Keys whose value goes through atoi, atof, a true/false comparison, strcpy.
IntKeys == {"batches", "generations", "active", "nuclides", "bins", "seed"}

FloatKeys == {"nu", "xs_f", "xs_a", "xs_s", "x", "y"}

BoolKeys == {"tally", "load_source", "save_source", "write_tally",
             "write_entropy", "write_keff", "write_bank", "write_source"}

FileKeys == {"tally_file", "entropy_file", "keff_file", "bank_file", "source_file"}

\* The command-line option of a key, and the key of an option.
OptionOf(key) == "-" \o key

Options == {OptionOf(key) : key \in Keys}

KeyOf(arg) == CHOOSE key \in Keys : OptionOf(key) = arg

\* The value strings of the model.
Tokens == {"-1", "0", "2x", "0.5", "TRUE", "false", "Reflective", "periodic"}

\* The first fields of the lines of the configuration file: the keys, and two
\* strings that are no key.
ConfigKeys == Keys \cup {"batches ", "colour"}

\* The arguments read_CLI meets where it expects an option.
Args == Options \cup {"batches", "-colour"}

\* atoi and atoll: the integer the string begins with, 0 when it begins with none.
Atoi(tok) ==
  CASE tok = "-1" -> -1
    [] tok = "0" -> 0
    [] tok = "2x" -> 2
    [] tok = "0.5" -> 0
    [] OTHER -> 0

\* atof: the decimal number the string begins with, 0 when it begins with none.
Atof(tok) ==
  CASE tok = "-1" -> Rat(-1, 1)
    [] tok = "0" -> Rat(0, 1)
    [] tok = "2x" -> Rat(2, 1)
    [] tok = "0.5" -> Rat(1, 2)
    [] OTHER -> Rat(0, 1)

\* The string strcasecmp compares: letter case is ignored.
Lower(tok) ==
  CASE tok = "TRUE" -> "true"
    [] tok = "Reflective" -> "reflective"
    [] OTHER -> tok

\* What the handler of a key leaves: the record, and the message of the
\* print_error call it made, "" when it made none.
Stored(q) == [message |-> "", params |-> q]

Refused(q, message) == [message |-> message, params |-> q]

\* parse_params lines 17-218, read_CLI lines 239-488: the handler of a key
\* whose value is the string tok.
Set(q, key, tok) ==
  IF key = "particles"
  THEN IF Atoi(tok) < 1
       THEN Refused(q, "Number of particles must be greater than 0")
       ELSE Stored([q EXCEPT !.n_particles = Atoi(tok)])
  ELSE IF key \in IntKeys THEN Stored([q EXCEPT ![Field[key]] = Atoi(tok)])
  ELSE IF key \in FloatKeys THEN Stored([q EXCEPT ![Field[key]] = Atof(tok)])
  ELSE IF key = "bc"
  THEN IF Lower(tok) = "vacuum" THEN Stored([q EXCEPT !.bc = 0])
       ELSE IF Lower(tok) = "reflective" THEN Stored([q EXCEPT !.bc = 1])
       ELSE IF Lower(tok) = "periodic" THEN Stored([q EXCEPT !.bc = 2])
       ELSE Refused(q, "Invalid boundary condition")
  ELSE IF key \in BoolKeys
  THEN IF Lower(tok) = "true" THEN Stored([q EXCEPT ![Field[key]] = TRUE])
       ELSE IF Lower(tok) = "false" THEN Stored([q EXCEPT ![Field[key]] = FALSE])
       ELSE Refused(q, "Invalid option for parameter '" \o key
                         \o "': must be 'true' or 'false'")
  ELSE Stored([q EXCEPT ![Field[key]] = tok])

\* read_CLI lines 495-504: the default names of the output files.
DefaultFiles(q) ==
  [q EXCEPT
     !.tally_file = IF q.write_tally /\ @ = NULL THEN "tally.dat" ELSE @,
     !.entropy_file = IF q.write_entropy /\ @ = NULL THEN "entropy.dat" ELSE @,
     !.keff_file = IF q.write_keff /\ @ = NULL THEN "keff.dat" ELSE @,
     !.bank_file = IF q.write_bank /\ @ = NULL THEN "bank.dat" ELSE @,
     !.source_file = IF q.write_source /\ @ = NULL THEN "source.dat" ELSE @]

\* read_CLI lines 505-520: the checks, in the order they are made.
Checks(q) ==
  << [failed |-> q.n_batches < 1 /\ q.n_generations < 1,
      message |-> "Must have at least one batch or one generation"],
     [failed |-> q.n_batches < 0,
      message |-> "Number of batches cannot be negative"],
     [failed |-> q.n_generations < 0,
      message |-> "Number of generations cannot be negative"],
     [failed |-> q.n_active > q.n_batches,
      message |-> "Number of active batches cannot be greater than number of batches"],
     [failed |-> q.n_bins < 0,
      message |-> "Number of bins cannot be negative"],
     [failed |-> q.nu.num < 0,
      message |-> "Average number of fission neutrons produced cannot be negative"],
     [failed |-> q.gx.num <= 0 \/ q.gy.num <= 0,
      message |-> "Length of domain must be positive in x and y dimension"],
     [failed |-> q.xs_f.num < 0 \/ q.xs_a.num < 0 \/ q.xs_s.num < 0,
      message |-> "Macroscopic cross section values cannot be negative"] >>

\* The message of the first check that fails, "" when none does.
Validate(q) ==
  LET failing == {k \in 1..Len(Checks(q)) : Checks(q)[k].failed}
  IN IF failing = {} THEN ""
     ELSE Checks(q)[CHOOSE k \in failing : \A m \in failing : k <= m].message

PrintErrorAndReturn(message) ==
  /\ stdout' = Append(stdout, <<"ERROR: ", message, "\n">>)
  /\ exit_code' = exit_code
  /\ cli_pc' = cli_pc

\* Lines 525-529: print_error prints the message and ends the process.
PrintError(message) ==
  /\ stdout' = Append(stdout, <<"ERROR: ", message, "\n">>)
  /\ exit_code' = 1
  /\ cli_pc' = "exited"

\* The variables of the driver, which has not been entered.
driver_vars ==
  <<parameters, n_threads, source_bank, fission_bank, master_fission_bank, sz,
    master_sz, pc,
    i_b, i_a, i_g, i_p, sched, taken, stream, keff_gen, keff_batch, keff, mpc,
    merge_n, n_sites, det_run, kern, rnd, n_draws, first_run, last_call,
    produced, batch_total, gen_source, pre_merge, sync_fb, sync_draws, extinct,
    keff_log, generations_run, calls, keff_call, sz, master_sz,
    sync_stream, started, tally_written, tally, entropy, merged>>

\* A setting with a value is one of the errors of configuration: a key or an
\* option that is not known, an option that is the last argument, a true/false
\* setting with another value, a boundary condition that is none of the three,
\* a number of particles below 1.
ConfigurationError(key, known, more, tok) ==
  \/ ~known
  \/ ~more
  \/ key \in BoolKeys /\ Lower(tok) \notin {"true", "false"}
  \/ key = "bc" /\ Lower(tok) \notin {"vacuum", "reflective", "periodic"}
  \/ key = "particles" /\ Atoi(tok) < 1

\* A record one of read_CLI's checks turns down.
Invalid(q) == \E k \in 1..Len(Checks(q)) : Checks(q)[k].failed

\* parse_params lines 9-222: one turn of the loop, on a comment or an empty
\* line, on a line key=value, or on a line that ends after the key: there
\* strtok returns NULL and the handler hands NULL to atoi, atof, strcasecmp
\* or strlen, which is undefined: the process is killed, or goes on as with
\* some value.
ParseLine ==
  /\ cli_pc = "parse_params"
  /\ n_read < MaxSettings
  /\ n_read' = n_read + 1
  /\ \/ UNCHANGED <<params, stdout, exit_code, cli_pc, rejected>>
     \/ \E key \in ConfigKeys, tok \in Tokens :
          LET out == IF key \in Keys THEN Set(params, key, tok)
                     ELSE Refused(params, "Unknown option in config file.")
          IN /\ rejected' = (rejected \/ ConfigurationError(key, key \in Keys, TRUE, tok))
             /\ params' = out.params
             /\ IF out.message = "" THEN UNCHANGED <<stdout, exit_code, cli_pc>>
                ELSE PrintError(out.message)
     \/ \E key \in Keys :
          \/ /\ cli_pc' = "killed"
             /\ UNCHANGED <<params, stdout, exit_code, rejected>>
          \/ \E tok \in Tokens :
               LET out == Set(params, key, tok)
               IN /\ params' = out.params
                  /\ IF out.message = "" THEN UNCHANGED <<stdout, exit_code, cli_pc>>
                     ELSE PrintError(out.message)
                  /\ UNCHANGED rejected
  /\ UNCHANGED driver_vars

\* parse_params lines 9, 224-226: fgets returns NULL; the file is closed and
\* parse_params returns.
EndOfFile ==
  /\ cli_pc = "parse_params"
  /\ cli_pc' = "returned"
  /\ UNCHANGED driver_vars
  /\ UNCHANGED  <<params, n_read, stdout, exit_code, rejected>>

\* read_CLI lines 235-492: one turn of the loop, on the argument arg; more
\* says that another argument follows it (++i < argc), and tok is that
\* argument.
ReadOption ==
  /\ cli_pc = "read_CLI"
  /\ n_read < MaxSettings
  /\ n_read' = n_read + 1
  /\ \E arg \in Args, more \in BOOLEAN, tok \in Tokens :
       LET out == IF arg \notin Options
                  THEN Refused(params, "Error reading command line input")
                  ELSE IF ~more
                  THEN Refused(params, "Error reading command line input '" \o arg \o "'")
                  ELSE Set(params, KeyOf(arg), tok)
           key == IF arg \in Options THEN KeyOf(arg) ELSE arg
       IN /\ rejected' = (rejected \/ ConfigurationError(key, arg \in Options, more, tok))
          /\ params' = out.params
          /\ IF out.message = "" THEN UNCHANGED <<stdout, exit_code, cli_pc>>
             ELSE PrintError(out.message)
  /\ UNCHANGED driver_vars

\* read_CLI lines 235, 494-522: the arguments are used up; the defaults of the
\* file names, the checks, and the return.
ValidateInputs ==
  /\ cli_pc = "read_CLI"
  /\ params' = DefaultFiles(params)
  /\ rejected' = (rejected \/ Invalid(params'))
  /\ IF Validate(params') = ""
     THEN /\ cli_pc' = "returned"
          /\ UNCHANGED <<stdout, exit_code>>
     ELSE PrintError(Validate(params'))
  /\ UNCHANGED n_read
  /\ UNCHANGED driver_vars

\* The record the readers are handed: every member set, every check passing.
ParamsAtEntry ==
  [n_particles |-> 1, n_batches |-> 1, n_generations |-> 1, n_active |-> 1,
   n_nuclides |-> 1, tally |-> FALSE, n_bins |-> 1, seed |-> 1,
   nu |-> Rat(1, 1), xs_f |-> Rat(1, 1), xs_a |-> Rat(1, 1), xs_s |-> Rat(1, 1),
   gx |-> Rat(1, 1), gy |-> Rat(1, 1), bc |-> 0, load_source |-> FALSE,
   save_source |-> FALSE, write_tally |-> FALSE, write_entropy |-> FALSE,
   write_keff |-> FALSE, write_bank |-> FALSE, write_source |-> FALSE,
   tally_file |-> NULL, entropy_file |-> NULL, keff_file |-> NULL,
   bank_file |-> NULL, source_file |-> NULL]

\* The readers have returned and printed nothing: the state of io.c in a run
\* of the driver.
Configured ==
  /\ params = ParamsAtEntry
  /\ cli_pc = "returned"
  /\ n_read = 0
  /\ stdout = <<>>
  /\ rejected = FALSE

\* parse_params or read_CLI is entered; the driver has not been.
InitCLI ==
  /\ params = ParamsAtEntry
  /\ cli_pc \in {"parse_params", "read_CLI"}
  /\ n_read = 0
  /\ stdout = <<>>
  /\ rejected = FALSE
  /\ exit_code = -1
  /\ parameters = [n_particles |-> 1, n_batches |-> 1, n_generations |-> 1,
                   n_active |-> 1,
                   tally |-> FALSE, write_tally |-> FALSE]
  /\ n_threads = 1
  /\ source_bank = EmptyBank
  /\ fission_bank = [t \in {0} |-> EmptyBank]
  /\ master_fission_bank = <<>>
  /\ pc = "not entered"
  /\ i_b = 0
  /\ i_a = -1
  /\ i_g = 0
  /\ i_p = [t \in {0} |-> -1]
  /\ sched = <<>>
  /\ taken = {}
  /\ stream = "TRACK"
  /\ keff_gen = Rat(1, 1)
  /\ keff_batch = Rat(0, 1)
  /\ keff = <<>>
  /\ mpc = [t \in {0} |-> "idle"]
  /\ merge_n = 0
  /\ n_sites = 0
  /\ det_run = 0
  /\ kern = <<>>
  /\ rnd = <<>>
  /\ n_draws = 0
  /\ first_run = <<>>
  /\ last_call = NoCall
  /\ produced = 0
  /\ batch_total = 0
  /\ gen_source = EmptyBank
  /\ pre_merge = [t \in {0} |-> EmptyBank]
  /\ sync_fb = EmptyBank
  /\ sync_draws = <<>>
  /\ sync_stream = "none"
  /\ extinct = FALSE
  /\ keff_log = <<>>
  /\ generations_run = 0
  /\ calls = <<>>
  /\ keff_call = NoKeffCall
  /\ started = {}
  /\ tally_written = <<>>
  /\ tally = NoTally
  /\ entropy = NoEntropy
  /\ merged = <<>>
  /\ sz = <<>>
  /\ master_sz = 0

NextCLI ==
  \/ ParseLine
  \/ EndOfFile
  \/ ReadOption
  \/ ValidateInputs

SpecCLI == InitCLI /\ [][NextCLI]_vars

(***************************************************************************)
(* A run of the driver.                                                    *)
(***************************************************************************)
\* The parameter sets of the model: read_CLI's checks passed, and at least one
\* batch and one generation.
ParameterSets ==
  {q \in [n_particles : 1..MaxParticles, n_batches : 1..MaxBatches,
          n_generations : 1..MaxGenerations, n_active : 0..MaxBatches,
          tally : {FALSE}, write_tally : {FALSE}] :
     q.n_active <= q.n_batches}

\* The state run_eigenvalue is entered in with parameters q, a team of T
\* threads and the source bank's array sp.
Entry(q, T, sp) ==
  /\ parameters = q
  /\ n_threads = T
  /\ source_bank = [p |-> sp, n |-> q.n_particles]
  /\ fission_bank = [t \in 0..(T - 1) |-> EmptyBank]
  /\ master_fission_bank = <<>>
  /\ pc = "batch_loop"
  /\ i_b = 0
  /\ i_a = -1
  /\ i_g = 0
  /\ i_p = [t \in 0..(T - 1) |-> -1]
  /\ sched = [ip \in 0..(q.n_particles - 1) |-> 0]
  /\ taken = {}
  /\ stream = "TRACK"
  /\ keff_gen = Rat(1, 1)
  /\ keff_batch = Rat(0, 1)
  /\ keff = [k \in 0..(q.n_active - 1) |-> Unset]
  /\ mpc = [t \in 0..(T - 1) |-> "idle"]
  /\ merge_n = 0
  /\ n_sites = 0
  /\ exit_code = -1
  /\ last_call = NoCall
  /\ produced = 0
  /\ batch_total = 0
  /\ gen_source = EmptyBank
  /\ pre_merge = [t \in 0..(T - 1) |-> EmptyBank]
  /\ sync_fb = EmptyBank
  /\ sync_draws = <<>>
  /\ sync_stream = "none"
  /\ extinct = FALSE
  /\ keff_log = <<>>
  /\ generations_run = 0
  /\ calls = [ip \in 0..(q.n_particles - 1) |-> 0]
  /\ keff_call = NoKeffCall
  /\ started = {}
  /\ tally_written = <<>>
  /\ tally = NoTally
  /\ entropy = NoEntropy
  /\ merged = <<>>
  /\ sz = [t \in 0..(T - 1) |-> RoomFor(q)]
  /\ master_sz = RoomFor(q)

Init ==
  /\ \E q \in ParameterSets, T \in 1..MaxThreads :
       \E sp \in SeqsOfLen(Sites, q.n_particles) : Entry(q, T, sp)
  /\ det_run = 0
  /\ kern = <<>>
  /\ rnd = <<>>
  /\ n_draws = 0
  /\ first_run = <<>>
  /\ Configured

Next ==
  \/ BatchBegin
  \/ GenerationBegin
  \/ \E w \in Threads : TransportStep(w)
  \/ ParticleLoopEnd
  \/ \E t \in Threads : MergeCount(t)
  \/ \E t \in Threads : MergeResize(t)
  \/ \E t \in Threads : MergeCopy(t)
  \/ \E t \in Threads : MergeAssign(t)
  \/ MergeEnd
  \/ KeffGen
  \/ Synchronize
  \/ Diagnostics
  \/ BatchEnd
  \/ Return

Spec == Init /\ [][Next]_vars

\* The long runs: one particle on a team of one thread, no active batch.
InitLong ==
  /\ \E nb \in 1..MaxLongBatches, ng \in 1..MaxLongGenerations :
       Entry([n_particles |-> 1, n_batches |-> nb, n_generations |-> ng,
              n_active |-> 0, tally |-> FALSE, write_tally |-> FALSE],
             1, <<"A">>)
  /\ det_run = 0
  /\ kern = <<>>
  /\ rnd = <<>>
  /\ n_draws = 0
  /\ first_run = <<>>
  /\ Configured

SpecLong == InitLong /\ [][Next]_vars

\* The runs with tallies: any setting of tally and write_tally, one particle
\* on a team of one thread or two.
InitTally ==
  /\ \E q \in ParameterSets, T \in 1..MaxThreads, on \in BOOLEAN, wr \in BOOLEAN :
       /\ q.n_particles = 1
       /\ Entry([q EXCEPT !.tally = on, !.write_tally = wr], T, <<"A">>)
  /\ det_run = 0
  /\ kern = <<>>
  /\ rnd = <<>>
  /\ n_draws = 0
  /\ first_run = <<>>
  /\ Configured

SpecTally == InitTally /\ [][Next]_vars

\* The runs of a team of MaxThreads threads in which every batch is active
\* (which batches are active plays no part in how long the run is).
InitFair ==
  /\ Init
  /\ parameters.n_active = parameters.n_batches
  /\ n_threads = MaxThreads

\* The driver with threads that are scheduled fairly: a step that can be
\* taken is taken.
SpecFair == InitFair /\ [][Next]_vars /\ WF_vars(Next)

(***************************************************************************)
(* synchronize_bank by itself: the driver stands at line 72 of the only     *)
(* generation of a one-batch run, with any source bank of at most           *)
(* MaxSyncSource particles and any merged fission bank of at most           *)
(* MaxSyncFission.                                                          *)
(***************************************************************************)
InitSync ==
  \E n_s \in 1..MaxSyncSource :
  \E sp \in SeqsOfLen(Sites, n_s), fp \in SeqsUpTo(SyncSites, MaxSyncFission) :
    /\ parameters = [n_particles |-> n_s, n_batches |-> 1, n_generations |-> 1,
                     n_active |-> 1,
                   tally |-> FALSE, write_tally |-> FALSE]
    /\ n_threads = 1
    /\ source_bank = [p |-> sp, n |-> n_s]
    /\ fission_bank = [t \in {0} |-> [p |-> fp, n |-> Len(fp)]]
    /\ master_fission_bank = <<>>
    /\ pc = "synchronize"
    /\ i_b = 0
    /\ i_a = 0
    /\ i_g = 0
    /\ i_p = [t \in {0} |-> -1]
    /\ sched = [ip \in 0..(n_s - 1) |-> 0]
    /\ taken = {}
    /\ stream = "OTHER"
    /\ keff_gen = KeffOfGeneration(Len(fp), n_s)
    /\ keff_batch = KeffOfGeneration(Len(fp), n_s)
    /\ keff = [k \in {0} |-> Unset]
    /\ mpc = [t \in {0} |-> "idle"]
    /\ merge_n = 0
    /\ n_sites = 0
    /\ exit_code = -1
    /\ det_run = 0
    /\ kern = <<>>
    /\ rnd = <<>>
    /\ n_draws = 0
    /\ first_run = <<>>
    /\ last_call = NoCall
    /\ produced = Len(fp)
    /\ batch_total = Len(fp)
    /\ gen_source = [p |-> sp, n |-> n_s]
    /\ pre_merge = [t \in {0} |-> EmptyBank]
    /\ sync_fb = EmptyBank
    /\ sync_draws = <<>>
    /\ sync_stream = "none"
    /\ extinct = FALSE
    /\ keff_log = <<>>
    /\ generations_run = 0
    /\ calls = [ip \in 0..(n_s - 1) |-> 1]
    /\ keff_call = NoKeffCall
    /\ started = {}
    /\ tally_written = <<>>
    /\ tally = NoTally
    /\ entropy = NoEntropy
    /\ merged = <<>>
    /\ sz = [t \in {0} |-> MaxSyncFission]
    /\ master_sz = MaxSyncFission
    /\ Configured

NextSync ==
  \/ Synchronize
  \/ Diagnostics

SpecSync == InitSync /\ [][NextSync]_vars

(***************************************************************************)
(* merge_fission_banks by itself: the driver stands at line 62 of the first *)
(* generation of a run on any team.  The fission banks were created with    *)
(* c_f slots and the master bank with c_m; each thread has banked at most   *)
(* MaxMergeBank particles, its bank having grown when they did not fit.     *)
(***************************************************************************)
InitMerge ==
  \E T \in 1..MaxThreads, c_f \in 1..MaxCapacity, c_m \in 1..MaxCapacity :
  \E fb \in [0..(T - 1) -> SeqsUpTo(Sites, MaxMergeBank)] :
  \E cap \in [0..(T - 1) -> 1..(MaxCapacity + MaxMergeBank + 1)] :
    /\ \A t \in 0..(T - 1) : cap[t] \in Grown(c_f, Len(fb[t]))
    /\ parameters = [n_particles |-> 1, n_batches |-> 1, n_generations |-> 1,
                     n_active |-> 1,
                   tally |-> FALSE, write_tally |-> FALSE]
    /\ n_threads = T
    /\ source_bank = [p |-> <<"A">>, n |-> 1]
    /\ fission_bank = [t \in 0..(T - 1) |-> [p |-> fb[t], n |-> Len(fb[t])]]
    /\ master_fission_bank = <<>>
    /\ sz = cap
    /\ master_sz = c_m
    /\ pc = "merge"
    /\ i_b = 0
    /\ i_a = 0
    /\ i_g = 0
    /\ i_p = [t \in 0..(T - 1) |-> -1]
    /\ sched = [ip \in {0} |-> 0]
    /\ taken = {}
    /\ stream = "OTHER"
    /\ keff_gen = Rat(1, 1)
    /\ keff_batch = Rat(0, 1)
    /\ keff = [k \in {0} |-> Unset]
    /\ mpc = [t \in 0..(T - 1) |-> "count"]
    /\ merge_n = 0
    /\ n_sites = 0
    /\ exit_code = -1
    /\ det_run = 0
    /\ kern = <<>>
    /\ rnd = <<>>
    /\ n_draws = 0
    /\ first_run = <<>>
    /\ last_call = NoCall
    /\ produced = SumOver([t \in 0..(T - 1) |-> Len(fb[t])], 0..(T - 1))
    /\ batch_total = produced
    /\ gen_source = source_bank
    /\ pre_merge = fission_bank
    /\ sync_fb = EmptyBank
    /\ sync_draws = <<>>
    /\ sync_stream = "none"
    /\ extinct = FALSE
    /\ keff_log = <<>>
    /\ generations_run = 0
    /\ calls = [ip \in {0} |-> 1]
    /\ keff_call = NoKeffCall
    /\ started = {}
    /\ tally_written = <<>>
    /\ tally = NoTally
    /\ entropy = NoEntropy
    /\ merged = <<>>
    /\ Configured

NextMerge ==
  \/ \E t \in Threads : MergeCount(t)
  \/ \E t \in Threads : MergeResize(t)
  \/ \E t \in Threads : MergeCopy(t)
  \/ \E t \in Threads : MergeAssign(t)
  \/ MergeEnd

SpecMerge == InitMerge /\ [][NextMerge]_vars

(***************************************************************************)
(* shannon_entropy by itself, called on a bank of b_n particles inside the *)
(* geometry.  A coordinate is held as the numerator a of x = (a / Grain) *  *)
(* Lx.  The value H it returns, a sum of logarithms, is not represented.    *)
(***************************************************************************)
\* The positions the particles of the bank take: the origin, the corner cell
\* next to the upper boundaries, and a point between.
EntropySites ==
  {<<0, 0, 0>>, <<Grain - 1, Grain - 1, Grain - 1>>, <<0, Grain - 1, Grain \div 2>>}

\* ceil(pow(q, 1.0/3.0)) for an integer q >= 0: the least m with m^3 >= q.
CeilCubeRoot(q) == CHOOSE m \in 0..q : /\ m * m * m >= q
                                       /\ \A k \in 0..(m - 1) : k * k * k < q

\* Line 235: n = ceil(pow(b->n/20, 1.0/3.0)); b->n is an unsigned long and 20
\* an int, so b->n/20 is the integer quotient.
GridBoxes(b_n) == CeilCubeRoot(b_n \div 20)

\* Lines 238-240 and 249-251: (unsigned long) (p->x / dx) with dx = Lx/n, for
\* x = (a / Grain) * Lx.  With n = 0, dx is infinite and the quotient is 0.
BoxOf(a, n) == IF n = 0 THEN 0 ELSE (a * n) \div Grain

\* Line 253: the index of the grid box of a particle at position pos.
BoxIndex(pos, n) == BoxOf(pos[1], n) * n * n + BoxOf(pos[2], n) * n + BoxOf(pos[3], n)

\* Lines 235-243: the grid is sized and the array of counts allocated, zeroed.
EntropyGrid ==
  /\ entropy.pc = "entered"
  /\ LET n == GridBoxes(entropy.b_n)
     IN entropy' = [entropy EXCEPT !.n = n,
                                   !.count = [c \in 0..(n * n * n - 1) |-> 0],
                                   !.i = 0,
                                   !.pc = "counting"]
  /\ UNCHANGED <<parameters, n_threads, source_bank, fission_bank,
                 master_fission_bank, sz, master_sz, pc, i_b, i_a, i_g, i_p,
                 sched, taken, stream, keff_gen, keff_batch, keff, mpc,
                 merge_n, n_sites, exit_code, det_run, kern, rnd, n_draws,
                 first_run, last_call, produced, batch_total, gen_source,
                 pre_merge, sync_fb, sync_draws, sync_stream, extinct,
                 keff_log, generations_run, calls, started, keff_call, merged,
                 tally, tally_written, params, cli_pc, n_read, stdout,
                 rejected>>

\* Lines 245-254: one iteration of the counting loop, for a particle somewhere
\* in the geometry.  An increment outside the array may land or may kill the
\* process.
EntropyCount ==
  /\ entropy.pc = "counting"
  /\ entropy.i < entropy.b_n
  /\ \E pos \in EntropySites :
       LET c == BoxIndex(pos, entropy.n)
       IN IF c \in DOMAIN entropy.count
          THEN entropy' = [entropy EXCEPT !.count[c] = @ + 1, !.i = @ + 1]
          ELSE \E next \in {"counting", "killed"} :
                 entropy' = [entropy EXCEPT !.outside = TRUE, !.i = @ + 1,
                                            !.pc = next]
  /\ UNCHANGED <<parameters, n_threads, source_bank, fission_bank,
                 master_fission_bank, sz, master_sz, pc, i_b, i_a, i_g, i_p,
                 sched, taken, stream, keff_gen, keff_batch, keff, mpc,
                 merge_n, n_sites, exit_code, det_run, kern, rnd, n_draws,
                 first_run, last_call, produced, batch_total, gen_source,
                 pre_merge, sync_fb, sync_draws, sync_stream, extinct,
                 keff_log, generations_run, calls, started, keff_call, merged,
                 tally, tally_written, params, cli_pc, n_read, stdout,
                 rejected>>

\* Lines 256-265: the counting loop is over; the entropy is summed over the
\* boxes, the array freed and H returned.
EntropyReturn ==
  /\ entropy.pc = "counting"
  /\ entropy.i >= entropy.b_n
  /\ entropy' = [entropy EXCEPT !.pc = "returned"]
  /\ UNCHANGED <<parameters, n_threads, source_bank, fission_bank,
                 master_fission_bank, sz, master_sz, pc, i_b, i_a, i_g, i_p,
                 sched, taken, stream, keff_gen, keff_batch, keff, mpc,
                 merge_n, n_sites, exit_code, det_run, kern, rnd, n_draws,
                 first_run, last_call, produced, batch_total, gen_source,
                 pre_merge, sync_fb, sync_draws, sync_stream, extinct,
                 keff_log, generations_run, calls, started, keff_call, merged,
                 tally, tally_written, params, cli_pc, n_read, stdout,
                 rejected>>

InitEntropy ==
  /\ \E b_n \in 1..MaxEntropyBank :
       entropy = [NoEntropy EXCEPT !.pc = "entered", !.b_n = b_n]
  /\ exit_code = -1
  /\ parameters = [n_particles |-> 1, n_batches |-> 1, n_generations |-> 1,
                   n_active |-> 1,
                   tally |-> FALSE, write_tally |-> FALSE]
  /\ n_threads = 1
  /\ source_bank = EmptyBank
  /\ fission_bank = [t \in {0} |-> EmptyBank]
  /\ master_fission_bank = <<>>
  /\ pc = "not entered"
  /\ i_b = 0
  /\ i_a = -1
  /\ i_g = 0
  /\ i_p = [t \in {0} |-> -1]
  /\ sched = <<>>
  /\ taken = {}
  /\ stream = "TRACK"
  /\ keff_gen = Rat(1, 1)
  /\ keff_batch = Rat(0, 1)
  /\ keff = <<>>
  /\ mpc = [t \in {0} |-> "idle"]
  /\ merge_n = 0
  /\ n_sites = 0
  /\ det_run = 0
  /\ kern = <<>>
  /\ rnd = <<>>
  /\ n_draws = 0
  /\ first_run = <<>>
  /\ last_call = NoCall
  /\ produced = 0
  /\ batch_total = 0
  /\ gen_source = EmptyBank
  /\ pre_merge = [t \in {0} |-> EmptyBank]
  /\ sync_fb = EmptyBank
  /\ sync_draws = <<>>
  /\ sync_stream = "none"
  /\ extinct = FALSE
  /\ keff_log = <<>>
  /\ generations_run = 0
  /\ calls = <<>>
  /\ keff_call = NoKeffCall
  /\ started = {}
  /\ tally_written = <<>>
  /\ tally = NoTally
  /\ merged = <<>>
  /\ sz = <<>>
  /\ master_sz = 0
  /\ Configured

NextEntropy ==
  \/ EntropyGrid
  \/ EntropyCount
  \/ EntropyReturn

SpecEntropy == InitEntropy /\ [][NextEntropy]_vars

(***************************************************************************)
(* Two runs compared: run_eigenvalue with one thread, then again with the  *)
(* same parameters, seed and initial source bank on a team of two or more. *)
(* The transport kernel and the OTHER stream answer the second run as they *)
(* answered the first (kern, rnd).                                         *)
(***************************************************************************)
InitCompared ==
  /\ \E q \in ParameterSets :
       /\ q.n_batches = 1
       /\ q.n_generations <= MaxCompared
       /\ \E sp \in SeqsOfLen(Sites, q.n_particles) :
            /\ Entry(q, 1, sp)
            /\ first_run = [start |-> sp, keff |-> <<>>, source |-> <<>>,
                            merged |-> <<>>, extinct |-> FALSE, done |-> FALSE]
  /\ det_run = 1
  /\ kern = <<>>
  /\ rnd = <<>>
  /\ n_draws = 0
  /\ Configured

\* The first run has returned; the second is entered on a larger team.
SecondRun ==
  /\ det_run = 1
  /\ pc = "done"
  /\ \E T \in 2..MaxThreads :
       /\ n_threads' = T
       /\ source_bank' = [p |-> first_run.start, n |-> parameters.n_particles]
       /\ fission_bank' = [t \in 0..(T - 1) |-> EmptyBank]
       /\ master_fission_bank' = <<>>
       /\ pc' = "batch_loop"
       /\ i_b' = 0
       /\ i_a' = -1
       /\ i_g' = 0
       /\ i_p' = [t \in 0..(T - 1) |-> -1]
       /\ sched' = [ip \in 0..(parameters.n_particles - 1) |-> 0]
       /\ taken' = {}
       /\ stream' = "TRACK"
       /\ keff_gen' = Rat(1, 1)
       /\ keff_batch' = Rat(0, 1)
       /\ keff' = [k \in 0..(parameters.n_active - 1) |-> Unset]
       /\ mpc' = [t \in 0..(T - 1) |-> "idle"]
       /\ merge_n' = 0
       /\ n_sites' = 0
       /\ exit_code' = -1
       /\ last_call' = NoCall
       /\ produced' = 0
       /\ batch_total' = 0
       /\ gen_source' = EmptyBank
       /\ pre_merge' = [t \in 0..(T - 1) |-> EmptyBank]
       /\ sync_fb' = EmptyBank
       /\ sync_draws' = <<>>
       /\ sync_stream' = "none"
       /\ extinct' = FALSE
       /\ keff_log' = <<>>
       /\ generations_run' = 0
       /\ calls' = [ip \in 0..(parameters.n_particles - 1) |-> 0]
       /\ keff_call' = NoKeffCall
       /\ started' = {}
       /\ tally_written' = <<>>
       /\ tally' = NoTally
       /\ entropy' = NoEntropy
       /\ merged' = <<>>
       /\ sz' = [t \in 0..(T - 1) |-> RoomFor(parameters)]
       /\ master_sz' = RoomFor(parameters)
  /\ det_run' = 2
  /\ n_draws' = 0
  /\ first_run' = [first_run EXCEPT !.keff = keff, !.source = source_bank.p,
                                    !.merged = merged,
                                    !.extinct = extinct, !.done = TRUE]
  /\ UNCHANGED <<parameters, kern, rnd, params, cli_pc, n_read, stdout,
                 rejected>>

NextCompared ==
  \/ Next
  \/ SecondRun

SpecCompared == InitCompared /\ [][NextCompared]_vars

(***************************************************************************)
(* Properties of the driver.                                               *)
(***************************************************************************)
\* Equality of two doubles held as fractions.
RatEq(x, q) == x.num * q.den = q.num * x.den

\* C1: population conservation.  When synchronize_bank has returned, the
\* source bank holds n_particles live particles and the master thread's
\* fission bank holds none, whatever the transport phase banked; and the
\* source bank holds n_particles particles whenever a generation starts.
C1_PopulationConserved ==
  /\ pc = "diagnostics" =>
       /\ source_bank.n = parameters.n_particles
       /\ Len(source_bank.p) = parameters.n_particles
       /\ fission_bank[0].n = 0
  /\ pc \in {"generation_loop", "particle_loop"} =>
       /\ source_bank.n = parameters.n_particles
       /\ Len(source_bank.p) = parameters.n_particles
       /\ (taken = {} => \A t \in Threads : fission_bank[t].n = 0)

\* synchronize_bank has returned from a fission bank larger than the source
\* bank, in a generation after the first.
C1_Witness ==
  /\ pc = "diagnostics"
  /\ i_g >= 1
  /\ sync_fb.n > parameters.n_particles
  /\ n_threads >= 2

\* C2: extinction is fatal.  Once synchronize_bank has been entered with an
\* empty fission bank the process has exited with a non-zero status, and
\* synchronize_bank made no rni draw from the empty range.
C2_ExtinctionFatal ==
  extinct => /\ exit_code > 0
             /\ ~(\E k \in 1..Len(sync_draws) : sync_draws[k].hi = 0)

BatchesBegun == IF pc \in {"batch_loop", "done"} THEN i_b ELSE i_b + 1

\* C5: active-batch bookkeeping.  i_a has advanced once for each batch begun
\* among the last n_active; the stores into keff are keff[0], keff[1], ... in
\* this order, the k-th made by batch n_batches - n_active + k, none outside
\* [0, n_active); and on return each of the n_active entries holds what its
\* batch stored.
C5_ActiveBookkeeping ==
  LET first == parameters.n_batches - parameters.n_active IN
  /\ i_a + 1 = Cardinality({b \in 0..(BatchesBegun - 1) : b >= first})
  /\ \A m \in 1..Len(keff_log) :
       /\ keff_log[m].k = m - 1
       /\ keff_log[m].k < parameters.n_active
       /\ keff_log[m].batch = first + m - 1
  /\ Len(keff_log) = Cardinality({b \in 0..(i_b - 1) : b >= first})
  /\ pc = "done" =>
       /\ Len(keff_log) = parameters.n_active
       /\ \A k \in 0..(parameters.n_active - 1) : keff[k] = keff_log[k + 1].value

\* A run with an inactive batch followed by an active one has returned.
C5_Witness ==
  /\ pc = "done"
  /\ parameters.n_active >= 1
  /\ parameters.n_active < parameters.n_batches

\* C6: reproducible seeding.  Every iteration of the particle loop skips to
\* (i_b * n_generations + i_g) * n_particles + i_p and transports a copy of
\* source_bank[i_p], whichever thread runs it and whatever ran before it.
C6_ReproducibleSeeding ==
  last_call # NoCall =>
    /\ last_call.i_b = i_b
    /\ last_call.i_g = i_g
    /\ last_call.skip = (last_call.i_b * parameters.n_generations + last_call.i_g)
                          * parameters.n_particles + last_call.i_p
    /\ last_call.p = gen_source.p[last_call.i_p + 1]
    /\ source_bank = gen_source

\* Thread 1 runs particle 0 after thread 0 ran particle 1, in the second
\* generation of the second batch.
C6_Witness ==
  /\ last_call # NoCall
  /\ last_call.thread = 1
  /\ last_call.i_p = 0
  /\ i_p[0] = 1
  /\ last_call.i_b = 1
  /\ last_call.i_g = 1

C16_KeffNeverEmpty ==
  keff_call # NoKeffCall =>
    /\ keff_call.n >= 1
    /\ \A i \in 0..(keff_call.n - 1) :
         /\ keff_call.read[i] # Unset
         /\ \E m \in 1..Len(keff_log) :
              keff_log[m].k = i /\ keff_log[m].value = keff_call.read[i]

\* C17: merge capacity.  In merge_fission_banks, once the resizes are past
\* and before any particle is copied, the master bank and thread 0's bank
\* both have capacity for the n_total particles of all threads, so no copy
\* writes past its destination.
C17_MergeCapacity ==
  (pc = "merge" /\ \E t \in Threads : mpc[t] \in {"copy", "barrier2", "end"}) =>
    /\ master_sz >= merge_n
    /\ sz[0] >= merge_n

\* The order of the phases of a generation: the position the master thread
\* moves to from each position of the generation loop.
PhaseOrder ==
  {<<"generation_loop", "particle_loop">>, <<"particle_loop", "merge">>,
   <<"merge", "keff_gen">>, <<"keff_gen", "synchronize">>,
   <<"synchronize", "diagnostics">>, <<"diagnostics", "generation_loop">>,
   <<"generation_loop", "batch_loop">>, <<"batch_loop", "generation_loop">>,
   <<"batch_loop", "done">>}

\* C18: phase ordering.  The phases of a generation follow one another in
\* the order transport, merge, keff_gen, synchronize, entropy.  A transport
\* call is made only in the transport phase and every call of the generation
\* has returned when the merge starts; a thread is in the merge only in the
\* merge phase, so none is copying when synchronize starts; and at a
\* transport call of generation g every earlier generation has been
\* synchronized.
C18_PhaseOrdering ==
  /\ [][pc' # pc => <<pc, pc'>> \in PhaseOrder]_vars
  /\ [][(\E ip \in DOMAIN calls : calls'[ip] > calls[ip])
          => pc = "particle_loop" /\ pc' = "particle_loop"]_vars
  /\ [](pc \in {"merge", "keff_gen", "synchronize", "diagnostics"}
          => \A ip \in 0..(N - 1) : calls[ip] = 1)
  /\ [][mpc' # mpc => pc = "particle_loop" \/ pc = "merge"]_vars
  /\ [](pc # "merge" => \A t \in Threads : mpc[t] = "idle")
  /\ [](pc \in {"keff_gen", "synchronize", "diagnostics"}
          => master_fission_bank = <<>> /\ \A t \in Threads : t # 0 => fission_bank[t].n = 0)
  /\ [](last_call # NoCall =>
          /\ pc = "particle_loop"
          /\ generations_run = last_call.i_b * parameters.n_generations + last_call.i_g
          /\ sync_fb = EmptyBank)

\* A thread other than the master has made a transport call of the second
\* generation of a batch on a team of two, the first generation having gone
\* through its merge and its synchronize.
C18_Witness ==
  /\ pc = "particle_loop"
  /\ n_threads = 2
  /\ last_call.thread = 1
  /\ last_call.i_g = 1
  /\ generations_run = 1
  /\ fission_bank[1].n > 0

C20_DistinctOffsets ==
  \A a, b \in started : a.skip = b.skip => a = b

\* C24: the source bank is read-only during transport.  From the start of a
\* generation's particle loop until synchronize_bank is entered the source
\* bank is what it was when the generation began, under every interleaving of
\* the threads; the source bank's particles change only in synchronize_bank,
\* and its live count n never changes.
C24_SourceReadOnly ==
  /\ [](pc \in {"particle_loop", "merge", "keff_gen", "synchronize"} =>
         source_bank = gen_source)
  /\ [][source_bank.p' # source_bank.p => pc = "synchronize"]_vars
  /\ [][source_bank.n' = source_bank.n]_vars

\* Two threads have each transported a particle of a source bank of two
\* different particles and banked offspring, and the merge begins.
C24_Witness ==
  /\ pc = "merge"
  /\ n_threads = 2
  /\ source_bank.p = <<"A", "B">>
  /\ pre_merge[0].n > 0
  /\ pre_merge[1].n > 0
  /\ i_g = 1

\* The active batches among the batches 0 .. ib - 1, in order.
ActiveBefore(ib) ==
  LET first == parameters.n_batches - parameters.n_active
  IN [k \in 1..(IF ib > first THEN ib - first ELSE 0) |-> first + k - 1]

\* C23: the tally is per batch.  In a run with tally and write_tally enabled
\* and tallies off at the start, tallies are off throughout an inactive batch
\* and on throughout an active one; write_tally has been called once for each
\* active batch that is over and for no other (n_active times when the run
\* has returned); the flux is zero after each write, and each tally written
\* holds scores of its own batch only.
C23_PerBatchTally ==
  (parameters.tally /\ parameters.write_tally) =>
    /\ pc \in {"generation_loop", "particle_loop", "merge", "keff_gen",
               "synchronize", "diagnostics"} =>
         tally.tallies_on = IsActive(i_b)
    /\ Len(tally_written) = Len(ActiveBefore(i_b))
    /\ \A k \in 1..Len(tally_written) :
         /\ tally_written[k].batch = ActiveBefore(i_b)[k]
         /\ \A score \in tally_written[k].flux : score.i_b = tally_written[k].batch
    /\ pc \in {"batch_loop", "done"} => tally.flux = {}
    /\ pc = "done" => Len(tally_written) = parameters.n_active

\* A run of two active batches has returned; each batch scored, and each was
\* written.
C23_Witness ==
  /\ pc = "done"
  /\ parameters.tally
  /\ parameters.write_tally
  /\ Len(tally_written) = 2
  /\ tally_written[1].flux # {}
  /\ tally_written[2].flux # {}

(***************************************************************************)
(* Properties of synchronize_bank.                                         *)
(***************************************************************************)
\* A bank of n particles, each labelled by its own index 0 .. n-1.
Labelled(n) == [p |-> [k \in 1..n |-> k - 1], n |-> n]

\* The draw sequences of DrawSeqs(n_s, n_f) after which the particle at index
\* q of the fission bank is in the source bank.
Including(n_s, n_f, q) ==
  {d \in DrawSeqs(n_s, n_f) :
     q \in Range(SyncResult(Labelled(n_s), Labelled(n_f), d, <<>>))}

\* C7: reservoir inclusion.  When synchronize_bank is entered with
\* n_f >= n_s >= 1, every particle of the fission bank is in the new source
\* bank for exactly the fraction n_s / n_f of the draw sequences rni can
\* deliver.
C7_ReservoirInclusion ==
  LET n_s == source_bank.n
      n_f == fission_bank[0].n
  IN (pc = "synchronize" /\ n_f >= n_s) =>
       \A q \in 0..(n_f - 1) :
         Cardinality(Including(n_s, n_f, q)) * n_f
           = n_s * Cardinality(DrawSeqs(n_s, n_f))

\* synchronize_bank has returned from a fission bank of at least two more
\* particles than the source bank's two or more, having replaced a slot.
C7_Witness ==
  /\ pc = "diagnostics"
  /\ source_bank.n >= 2
  /\ sync_fb.n >= source_bank.n + 2
  /\ \E k \in 1..Len(sync_draws) : sync_draws[k].j < source_bank.n
  /\ \E k \in 1..Len(sync_draws) : sync_draws[k].j >= source_bank.n

\* C8: over-sampling.  When synchronize_bank has returned from a fission bank
\* of 1 <= n_f < n_s particles, the last n_f source slots hold the fission
\* bank in its order, and slot k of the first n_s - n_f holds the fission
\* particle at the index the k-th rni(0, n_f) draw returned.  With N = 4, the
\* fission bank [A, B] and the draws 0, 1 the source bank is [A, B, A, B].
C8_OverSampling ==
  LET n_s == source_bank.n
      n_f == sync_fb.n
  IN (pc = "diagnostics" /\ 1 <= n_f /\ n_f < n_s) =>
       /\ Len(source_bank.p) = n_s
       /\ \A k \in 1..n_f : source_bank.p[n_s - n_f + k] = sync_fb.p[k]
       /\ Len(sync_draws) = n_s - n_f
       /\ \A k \in 1..(n_s - n_f) :
            /\ sync_draws[k].hi = n_f
            /\ sync_draws[k].j \in 0..(n_f - 1)
            /\ source_bank.p[k] = sync_fb.p[sync_draws[k].j + 1]
       /\ (/\ n_s = 4
           /\ sync_fb.p = <<"A", "B">>
           /\ sync_draws = <<[hi |-> 2, j |-> 0], [hi |-> 2, j |-> 1]>>)
            => source_bank.p = <<"A", "B", "A", "B">>

\* The scenario: N = 4, the fission bank [A, B], the draws 0 and 1.
C8_Witness ==
  /\ pc = "diagnostics"
  /\ source_bank.n = 4
  /\ sync_fb.p = <<"A", "B">>
  /\ sync_draws = <<[hi |-> 2, j |-> 0], [hi |-> 2, j |-> 1]>>
  /\ source_bank.p = <<"A", "B", "A", "B">>

\* C12: reservoir replacement rule.  When synchronize_bank has returned from
\* a fission bank of n_f >= n_s particles, it has drawn once for each
\* i = n_s .. n_f - 1 in increasing i, the draw for i being j_i = rni(0, i + 1),
\* and slot s of the source bank holds the fission particle at the largest i
\* with j_i = s, or the one at s when no draw returned s.  With N = 2, the
\* fission bank [A, B, C, D] and the draws j_2 = 2, j_3 = 0 the source bank is
\* [D, B].
C12_ReservoirReplacement ==
  LET n_s == source_bank.n
      n_f == sync_fb.n
      Hits(s) == {i \in n_s..(n_f - 1) : sync_draws[i - n_s + 1].j = s}
      Last(I) == CHOOSE i \in I : \A h \in I : h <= i
  IN (pc = "diagnostics" /\ n_f >= n_s) =>
       /\ Len(sync_draws) = n_f - n_s
       /\ \A i \in n_s..(n_f - 1) :
            /\ sync_draws[i - n_s + 1].hi = i + 1
            /\ sync_draws[i - n_s + 1].j \in 0..i
       /\ Len(source_bank.p) = n_s
       /\ \A s \in 0..(n_s - 1) :
            source_bank.p[s + 1] = IF Hits(s) = {} THEN sync_fb.p[s + 1]
                                   ELSE sync_fb.p[Last(Hits(s)) + 1]
       /\ (/\ n_s = 2
           /\ sync_fb.p = <<"A", "B", "C", "D">>
           /\ sync_draws = <<[hi |-> 3, j |-> 2], [hi |-> 4, j |-> 0]>>)
            => source_bank.p = <<"D", "B">>

\* The scenario: N = 2, the fission bank [A, B, C, D], the draws 2 and 0.
C12_Witness ==
  /\ pc = "diagnostics"
  /\ source_bank.n = 2
  /\ sync_fb.p = <<"A", "B", "C", "D">>
  /\ sync_draws = <<[hi |-> 3, j |-> 2], [hi |-> 4, j |-> 0]>>
  /\ source_bank.p = <<"D", "B">>

\* The draw sequences of DrawSeqs(n_s, n_f) after which slot s of the source
\* bank holds the particle at index k of the fission bank.
Holding(n_s, n_f, s, k) ==
  {d \in DrawSeqs(n_s, n_f) :
     SyncResult(Labelled(n_s), Labelled(n_f), d, <<>>)[s + 1] = k}

\* C13 as stated: per-slot uniformity.  When synchronize_bank has returned
\* from a fission bank of n_f >= n_s particles, every slot s of the source
\* bank holds every fission index k for the same fraction 1 / n_f of the
\* equally likely draw sequences.
C13_PerSlotUniform ==
  LET n_s == source_bank.n
      n_f == sync_fb.n
  IN (pc = "diagnostics" /\ n_f >= n_s) =>
       \A s \in 0..(n_s - 1), k \in 0..(n_f - 1) :
         Cardinality(Holding(n_s, n_f, s, k)) * n_f
           = Cardinality(DrawSeqs(n_s, n_f))

\* C13 as amended: the fractions of the reservoir loop.  When
\* synchronize_bank has returned from a fission bank of n_f >= n_s
\* particles, slot s of the source bank holds fission index s for the
\* fraction n_s / n_f of the equally likely draw sequences, each fission
\* index k >= n_s for the fraction 1 / n_f, and no other index k < n_s
\* ever.
C13_PerSlotFractions ==
  LET n_s == source_bank.n
      n_f == sync_fb.n
  IN (pc = "diagnostics" /\ n_f >= n_s) =>
       \A s \in 0..(n_s - 1), k \in 0..(n_f - 1) :
         Cardinality(Holding(n_s, n_f, s, k)) * n_f
           = Cardinality(DrawSeqs(n_s, n_f))
               * (IF k = s THEN n_s ELSE IF k < n_s THEN 0 ELSE 1)

\* synchronize_bank has returned from a fission bank of four particles to a
\* source bank of two, the last draw having replaced slot 1.
C13_Witness ==
  /\ pc = "diagnostics"
  /\ source_bank.n = 2
  /\ sync_fb.n = 4
  /\ sync_draws[2].j = 1
  /\ source_bank.p[2] = sync_fb.p[4]

\* The fission index each slot of the source bank was filled from, for the
\* draws synchronize_bank made: its result on banks whose particles are
\* their own indices.
FilledFrom ==
  SyncResult(Labelled(source_bank.n), Labelled(sync_fb.n),
             [k \in 1..Len(sync_draws) |-> sync_draws[k].j], <<>>)

\* C14: sampling without replacement.  When synchronize_bank has returned
\* from a fission bank of n_f >= n_s particles, the n_s slots of the source
\* bank hold the particles of n_s pairwise distinct indices of the fission
\* bank.
C14_WithoutReplacement ==
  LET n_s == source_bank.n
      n_f == sync_fb.n
  IN (pc = "diagnostics" /\ n_f >= n_s) =>
       /\ Len(source_bank.p) = n_s
       /\ Len(FilledFrom) = n_s
       /\ \A s \in 1..n_s :
            /\ FilledFrom[s] \in 0..(n_f - 1)
            /\ source_bank.p[s] = sync_fb.p[FilledFrom[s] + 1]
       /\ \A s, r \in 1..n_s : FilledFrom[s] = FilledFrom[r] => s = r
       /\ Cardinality(Range(FilledFrom)) = n_s

\* synchronize_bank has returned from a fission bank of four particles to a
\* source bank of three, the only draw having replaced slot 0.
C14_Witness ==
  /\ pc = "diagnostics"
  /\ source_bank.n = 3
  /\ sync_fb.n = 4
  /\ sync_draws[1].j = 0
  /\ FilledFrom = <<3, 1, 2>>

\* C15: the equal-size edge case.  When synchronize_bank has returned from a
\* fission bank of exactly n_s particles, it has made no rni draw and the
\* source bank is the fission bank, element for element.
C15_EqualSizeCopy ==
  (pc = "diagnostics" /\ sync_fb.n = source_bank.n) =>
    /\ sync_draws = <<>>
    /\ Len(source_bank.p) = sync_fb.n
    /\ \A k \in 1..sync_fb.n : source_bank.p[k] = sync_fb.p[k]

\* synchronize_bank has returned from a fission bank of three particles, not
\* all alike, to a source bank of three.
C15_Witness ==
  /\ pc = "diagnostics"
  /\ source_bank.n = 3
  /\ sync_fb.p = <<"C", "A", "B">>
  /\ source_bank.p = <<"C", "A", "B">>

(***************************************************************************)
(* Properties of shannon_entropy.                                          *)
(***************************************************************************)
\* C22: the size of the entropy grid.  Once shannon_entropy has sized its
\* grid for a bank of N >= 1 particles, the number m of boxes in each
\* dimension is the least integer with 20 * m^3 >= N (so m >= 1).
C22_GridSize ==
  entropy.pc \in {"counting", "returned", "killed"} =>
    LET m == entropy.n
        N_b == entropy.b_n
    IN /\ 20 * m * m * m >= N_b
       /\ \A k \in 0..(m - 1) : 20 * k * k * k < N_b

\* C25: the indices of the entropy grid stay in bounds.  For a bank of N >= 1
\* particles inside the geometry, shannon_entropy allocates at least one box,
\* every index it increments lies in the array, and when the counting loop is
\* over the counts sum to N.
C25_IndexInBounds ==
  /\ entropy.pc \in {"counting", "returned", "killed"} =>
       /\ entropy.n >= 1
       /\ ~entropy.outside
  /\ entropy.pc = "returned" =>
       SumOver(entropy.count, DOMAIN entropy.count) = entropy.b_n

(***************************************************************************)
(* Properties of two runs compared.                                        *)
(***************************************************************************)
\* C3: determinism versus worker count.  When the run on several threads has
\* returned, its keff array and its final source bank are those of the run on
\* one thread (neither run having met an empty fission bank).
C3_SameAsOneThread ==
  (det_run = 2 /\ pc = "done" /\ ~extinct /\ ~first_run.extinct) =>
    /\ keff = first_run.keff
    /\ source_bank.p = first_run.source

\* How many of the particles of the array s are x.
CountOf(s, x) == Cardinality({k \in 1..Len(s) : s[k] = x})

\* The arrays s and t hold the same particles, each as many times.
SameParticles(s, t) ==
  /\ Len(s) = Len(t)
  /\ \A x \in Sites : CountOf(s, x) = CountOf(t, x)

C26_ValidatedRanges ==
  [][(cli_pc = "read_CLI" /\ cli_pc' = "returned") =>
       /\ params'.n_batches >= 1
       /\ params'.n_generations >= 1
       /\ params'.n_active >= 0
       /\ params'.n_active <= params'.n_batches]_vars

\* C10: fatal configuration errors.  Once parse_params or read_CLI has met an
\* unknown key or option, an option without its value, a true/false setting
\* or a boundary condition with another value, a number of particles below 1,
\* or a record one of the checks turns down, the process has exited with a
\* non-zero status after printing one line that begins with "ERROR: "; a
\* reader that has returned has met none of these and printed nothing.
C10_FatalConfigurationErrors ==
  /\ rejected =>
       /\ cli_pc = "exited"
       /\ exit_code > 0
       /\ Len(stdout) = 1
       /\ stdout[1][1] = "ERROR: "
  /\ cli_pc = "returned" => (~rejected /\ stdout = <<>> /\ exit_code = -1)

\* read_CLI has stored two options and then turned the record down at its
\* first check.
C10_Witness ==
  /\ cli_pc = "exited"
  /\ rejected
  /\ n_read = 2
  /\ params.n_batches = 0
  /\ params.n_generations = 0
  /\ stdout = << <<"ERROR: ", "Must have at least one batch or one generation", "\n">> >>
=============================================================================
